---- MODULE Spec2Model ----
(***************************************************************************)
(* A model of the skeem interpreter core: the object model (types.rs), the *)
(* scope stack (environment.rs), the heap with its mark-sweep collector    *)
(* and the evaluator (interpreter.rs), the parser (parse.rs) and the       *)
(* read-eval-print loop (main.rs).  Objects are numbered by allocation     *)
(* order; an object id stands for the Rc<Box<Object>> that every handle to *)
(* it shares.                                                              *)
(***************************************************************************)
EXTENDS Integers, Sequences, FiniteSets, TLC

VARIABLES
    heap,           \* every Object ever constructed: id -> [object_type, marked]
    live_objects,   \* Interpreter.live_objects: Vec<HeapObject> (sequence of ids)
    environment,    \* Interpreter.environment: Environment(Vec<HashMap>)
    fn_stack,       \* Interpreter.fn_stack: Vec<Rc<String>>
    gc_disabled,    \* Interpreter.gc_disabled
    bytes_alloc,    \* Interpreter.bytes_alloc
    gc_threshold,   \* Interpreter.gc_threshold
    ret,            \* what the last call returned to its caller (and, for eval,
                    \* the handle it was called with)
    assert_fired,   \* a debug_assert of gc() was false (debug builds abort there)
    panicked,       \* the process aborted (expect/unwrap on None)
    scanner         \* the Scanner of the reader: its fields

vars == <<heap, live_objects, environment, fn_stack, gc_disabled, bytes_alloc,
          gc_threshold, ret, assert_fired, panicked, scanner>>

----------------------------------------------------------------------------
(* Bounds of the model. *)

MaxObjs == 2        \* new_object calls in one behaviour
MaxDepth == 1       \* scopes the caller pushes on top of one another
MarkObjs == 2       \* objects of the object graphs a mark phase is run on
MarkFuel == 12      \* mark bits set after which a mark phase is cut off
SweepObjs == 4      \* objects of the live sets a sweep is run on
MemObjs == 3        \* objects created on the earlier Interpreter of mem.rs

Names == {"x", "y", "f", "g", "+", "refcount", "define"} \* the symbol names in use
ApiNames == {"x"}   \* the names a direct caller of the Environment binds
MemNames == {"x", "y"} \* the names bound on the earlier Interpreter of mem.rs
ListLens == {1, 2}  \* lengths of the lists a direct caller builds
StrCaps == {6, 600} \* capacities of the String payloads allocated

----------------------------------------------------------------------------
(* types.rs: Type, Object. *)

NoObj == 0

EmptyScope == [n \in Names |-> NoObj]

BlankType == [tag |-> "Bool", val |-> 0, name |-> "", cap |-> 0, kids |-> <<>>,
              has_env |-> FALSE, env |-> EmptyScope,
              params |-> NoObj, body |-> NoObj]

TBool(b) == [BlankType EXCEPT !.tag = "Bool", !.val = IF b THEN 1 ELSE 0]
TInteger(n) == [BlankType EXCEPT !.tag = "Integer", !.val = n]
\* a float of integral value n
TFloat(n) == [BlankType EXCEPT !.tag = "Float", !.val = n]
TString(c) == [BlankType EXCEPT !.tag = "String", !.cap = c]
TSymbol(n, c) == [BlankType EXCEPT !.tag = "Symbol", !.name = n, !.cap = c]
TCons(l) == [BlankType EXCEPT !.tag = "Cons", !.kids = l]
TPrimitive(n) == [BlankType EXCEPT !.tag = "Primitive", !.name = n]
TLambda(he, e, p, b) == [BlankType EXCEPT !.tag = "Lambda", !.has_env = he,
                                          !.env = e, !.params = p, !.body = b]

SizeOfBool == 1
SizeOfInteger == 8
SizeOfFloat == 8
SizeOfChar == 4
SizeOfList == 24
SizeOfLambda == 24

\* Type::size_of
SizeOf(t) ==
    CASE t.tag = "Bool" -> SizeOfBool
      [] t.tag = "Integer" -> SizeOfInteger
      [] t.tag = "Float" -> SizeOfFloat
      [] t.tag = "Character" -> SizeOfChar
      [] t.tag \in {"String", "Symbol"} -> t.cap
      [] t.tag = "Cons" -> SizeOfList
      [] t.tag = "Lambda" -> SizeOfLambda
      [] OTHER -> 0

\* Object::get_type_string
TypeString(t) ==
    CASE t.tag = "Bool" -> "boolean"
      [] t.tag = "Integer" -> "integer"
      [] t.tag = "Float" -> "float"
      [] t.tag = "Character" -> "character"
      [] t.tag = "String" -> "string"
      [] t.tag = "Cons" -> "list"
      [] t.tag \in {"Lambda", "Primitive"} -> "procedure"
      [] t.tag = "Symbol" -> "symbol"

\* Object::new
ObjectNew(t) == [object_type |-> t, marked |-> TRUE]

\* impl Add for Object, on the types of two numbers: the sum is a Float as
\* soon as one of them is
ObjectAdd(a, b) ==
    IF a.tag = "Integer" /\ b.tag = "Integer" THEN TInteger(a.val + b.val)
    ELSE TFloat(a.val + b.val)

\* Result<Object, ErrType> of the arithmetic on lists
NumOk(t) == [ok |-> TRUE, sum |-> t, got |-> ""]
NumErr(got) == [ok |-> FALSE, sum |-> TInteger(0), got |-> got]

\* Object::add_list, the loop from the i-th element of nums on; the elements
\* are taken as they are
RECURSIVE AddLoop(_, _, _, _)
AddLoop(h, nums, i, sum) ==
    IF i > Len(nums) THEN NumOk(sum)
    ELSE IF h[nums[i]].object_type.tag \in {"Integer", "Float"}
    THEN AddLoop(h, nums, i + 1, ObjectAdd(sum, h[nums[i]].object_type))
    ELSE NumErr(TypeString(h[nums[i]].object_type))

\* Object::add_list
AddList(h, nums) == AddLoop(h, nums, 1, TInteger(0))

\* the operand of sub_list: Float(-n) or Integer(-n)
Negated(t) == [t EXCEPT !.val = 0 - @]

\* Object::sub_list, the loop from the i-th element of nums on
RECURSIVE SubLoop(_, _, _, _)
SubLoop(h, nums, i, sum) ==
    IF i > Len(nums) THEN NumOk(sum)
    ELSE IF h[nums[i]].object_type.tag \in {"Integer", "Float"}
    THEN SubLoop(h, nums, i + 1,
                 ObjectAdd(sum, Negated(h[nums[i]].object_type)))
    ELSE NumErr(TypeString(h[nums[i]].object_type))

\* Object::sub_list
SubList(h, nums) == SubLoop(h, nums, 1, TInteger(0))

\* impl Mul for Object, on the types of two numbers
ObjectMul(a, b) ==
    IF a.tag = "Integer" /\ b.tag = "Integer" THEN TInteger(a.val * b.val)
    ELSE TFloat(a.val * b.val)

\* Object::mul_list, the loop from the i-th element of nums on
RECURSIVE MulLoop(_, _, _, _)
MulLoop(h, nums, i, prod) ==
    IF i > Len(nums) THEN NumOk(prod)
    ELSE IF h[nums[i]].object_type.tag \in {"Integer", "Float"}
    THEN MulLoop(h, nums, i + 1, ObjectMul(prod, h[nums[i]].object_type))
    ELSE NumErr(TypeString(h[nums[i]].object_type))

\* Object::mul_list
MulList(h, nums) == MulLoop(h, nums, 1, TInteger(0))

----------------------------------------------------------------------------
(* Sequence helpers. *)

Range(s) == {s[i] : i \in DOMAIN s}

RECURSIVE SetToSeq(_)
SetToSeq(S) ==
    IF S = {} THEN <<>>
    ELSE LET m == CHOOSE a \in S : \A b \in S : a <= b
         IN <<m>> \o SetToSeq(S \ {m})

RECURSIVE NamesToSeq(_)
NamesToSeq(S) ==
    IF S = {} THEN <<>>
    ELSE LET n == CHOOSE a \in S : TRUE IN <<n>> \o NamesToSeq(S \ {n})

Reverse(s) == [i \in 1..Len(s) |-> s[Len(s) + 1 - i]]

\* Vec::swap_remove(i), i counted from 0
SwapRemove(s, i) ==
    LET n == Len(s)
        moved == [s EXCEPT ![i + 1] = s[n]]
    IN SubSeq(moved, 1, n - 1)

RECURSIVE Count(_, _)
Count(s, x) ==
    IF s = <<>> THEN 0
    ELSE (IF Head(s) = x THEN 1 ELSE 0) + Count(Tail(s), x)

\* the values of a HashMap, in an iteration order
ScopeValues(scope) ==
    LET bound == NamesToSeq({n \in Names : scope[n] # NoObj})
    IN [i \in 1..Len(bound) |-> scope[bound[i]]]

----------------------------------------------------------------------------
(* types.rs: Object::mark, Lambda::mark, mark_list, mark_procedure.  The   *)
(* state threaded through is the heap, the objects whose mark bit this     *)
(* phase set (in order), and whether the phase was cut off after setting   *)
(* MarkFuel bits (a phase that sets every bit at most once never is).      *)

\* the handles Object::mark recurses into, in the order it does
MarkChildren(t) ==
    CASE t.tag = "Cons" -> t.kids
      [] t.tag = "Lambda" ->
            (IF t.has_env THEN ScopeValues(t.env) ELSE <<>>)
                \o <<t.params, t.body>>
      [] OTHER -> <<>>

\* mark() without its test: every call sets the bit and recurses
AlreadyMarkedNever(h, o) == FALSE

\* the mark-bit test at the top of Object::mark
AlreadyMarked(h, o) == h[o].marked

RECURSIVE MarkObj(_, _), MarkList(_, _)
MarkObj(st, o) ==
    IF st.cut \/ AlreadyMarked(st.h, o) THEN st
    ELSE IF Len(st.visited) >= MarkFuel THEN [st EXCEPT !.cut = TRUE]
    ELSE MarkList([h |-> [st.h EXCEPT ![o].marked = TRUE],
                   visited |-> Append(st.visited, o),
                   cut |-> FALSE],
                  MarkChildren(st.h[o].object_type))

MarkList(st, l) ==
    IF l = <<>> THEN st
    ELSE MarkList(MarkObj(st, Head(l)), Tail(l))

\* Environment::mark_all
RECURSIVE MarkScopes(_, _)
MarkScopes(st, scopes) ==
    IF scopes = <<>> THEN st
    ELSE MarkScopes(MarkList(st, ScopeValues(Head(scopes))), Tail(scopes))

MarkAll(h, env) ==
    MarkScopes([h |-> h, visited |-> <<>>, cut |-> FALSE], env)

----------------------------------------------------------------------------
(* Handles and reference counts.  An Rc's strong count is the number of    *)
(* places holding a clone of it: the live set, the singleton fields, the   *)
(* scopes, the payloads of the objects that still exist, and the locals of *)
(* the calls in progress.                                                  *)

NilId == 1
TrueId == 2
FalseId == 3
Singletons == {NilId, TrueId, FalseId}

\* Interpreter::new_nil, new_true, new_false: clones of the fields
NewNil == NilId
NewTrue == TrueId
NewFalse == FalseId

\* the handles a payload holds
Refs(t) ==
    CASE t.tag = "Cons" -> t.kids
      [] t.tag = "Lambda" ->
            (IF t.has_env THEN ScopeValues(t.env) ELSE <<>>)
                \o <<t.params, t.body>>
      [] OTHER -> <<>>

RECURSIVE ReachFrom(_, _, _)
ReachFrom(h, frontier, seen) ==
    IF frontier \subseteq seen THEN seen
    ELSE LET new == frontier \ seen
         IN ReachFrom(h, UNION {Range(Refs(h[o].object_type)) : o \in new},
                      seen \cup new)

RECURSIVE ScopesValues(_)
ScopesValues(scopes) ==
    IF scopes = <<>> THEN <<>>
    ELSE ScopeValues(Head(scopes)) \o ScopesValues(Tail(scopes))

\* the objects bound in some scope, and everything they lead to
Rooted(I) == ReachFrom(I.heap, Range(ScopesValues(I.environment)), {})

\* the objects some handle still leads to (the others have been dropped)
Existing(I, locals) ==
    ReachFrom(I.heap,
              Range(I.live_objects) \cup Singletons
                  \cup Range(ScopesValues(I.environment)) \cup Range(locals),
              {})

RECURSIVE CountRefs(_, _, _)
CountRefs(h, holders, o) ==
    IF holders = <<>> THEN 0
    ELSE Count(Refs(h[Head(holders)].object_type), o)
            + CountRefs(h, Tail(holders), o)

\* Rc::strong_count
StrongCount(I, locals, o) ==
    Count(I.live_objects, o)
        + (IF o \in Singletons THEN 1 ELSE 0)
        + Count(ScopesValues(I.environment), o)
        + Count(locals, o)
        + CountRefs(I.heap, SetToSeq(Existing(I, locals)), o)

----------------------------------------------------------------------------
(* interpreter.rs: Interpreter::gc and Interpreter::new_object, as         *)
(* functions of the interpreter record I.                                  *)

\* the loop over live_objects (interpreter.rs 74-86)
RECURSIVE SweepLoop(_, _, _, _)
SweepLoop(I, locals, i, acc) ==
    IF i > Len(I.live_objects) THEN acc
    ELSE LET obj == I.live_objects[i]
         IN IF ~acc.h[obj].marked
            THEN SweepLoop(I, locals, i + 1,
                    [acc EXCEPT
                        !.bytes = @ - SizeOf(acc.h[obj].object_type),
                        !.asserted = @ \/ StrongCount(I, locals, obj) # 1,
                        !.indices = Append(@, i - 1),
                        !.count = @ + 1])
            ELSE SweepLoop(I, locals, i + 1,
                    [acc EXCEPT !.h = [@ EXCEPT ![obj].marked = FALSE]])

\* indices.reverse(); swap_remove each (interpreter.rs 88-91)
RECURSIVE RemoveAll(_, _)
RemoveAll(live, indices) ==
    IF indices = <<>> THEN live
    ELSE RemoveAll(SwapRemove(live, Head(indices)), Tail(indices))

\* the indices removed in the order the loop collected them
AscendingOrder(indices) == indices

\* indices.reverse() (interpreter.rs 88)
RemovalOrder(indices) == Reverse(indices)

\* gc leaving the accounted size as it was before the sweep
GcSweptUncounted(I, m, s) ==
    [I |-> [I EXCEPT
              !.heap = s.h,
              !.live_objects = RemoveAll(@, RemovalOrder(s.indices)),
              !.assert_fired = @ \/ s.asserted],
     count |-> s.count, visited |-> m.visited, cut |-> m.cut]

\* Interpreter::gc after the loop: s is what the loop leaves, m the mark phase
GcSwept(I, m, s) ==
    [I |-> [I EXCEPT
              !.heap = s.h,
              !.bytes_alloc = s.bytes,
              !.live_objects = RemoveAll(@, RemovalOrder(s.indices)),
              !.assert_fired = @ \/ s.asserted],
     count |-> s.count, visited |-> m.visited, cut |-> m.cut]

\* Interpreter::gc after environment.mark_all(), whose outcome is m
GcMarked(I, locals, m) ==
    GcSwept(I, m, SweepLoop([I EXCEPT !.heap = m.h], locals, 1,
                            [h |-> m.h, bytes |-> I.bytes_alloc,
                             indices |-> <<>>, count |-> 0, asserted |-> FALSE]))

\* Interpreter::gc; locals are the handles held by the calls in progress
Gc(I, locals) ==
    IF I.gc_disabled THEN [I |-> I, count |-> 0, visited |-> <<>>, cut |-> FALSE]
    ELSE GcMarked(I, locals, MarkAll(I.heap, I.environment))

\* Interpreter::new_object, the push onto live_objects and the handle returned
PushObject(I, t) ==
    [I |-> [I EXCEPT !.heap = Append(@, ObjectNew(t)),
                     !.live_objects = Append(@, Len(I.heap) + 1)],
     obj |-> Len(I.heap) + 1]

\* Interpreter::new_object; the payload t already holds its handles
NewObject(I, t, locals) ==
    LET bytes == I.bytes_alloc + SizeOf(t)
        I1 == [I EXCEPT !.bytes_alloc = bytes]
    IN PushObject(IF bytes > I.gc_threshold
                  THEN Gc([I1 EXCEPT !.gc_threshold = bytes \div 2],
                          locals \o Refs(t)).I
                  ELSE I1,
                  t)

----------------------------------------------------------------------------
(* environment.rs: Environment. *)

\* Environment::push
EnvPush(env) == Append(env, EmptyScope)

\* Environment::pop: Vec::pop().expect(..); None only on an empty stack
EnvPopPanics(env) == Len(env) = 0
EnvPop(env) == SubSeq(env, 1, Len(env) - 1)

\* Environment::insert_sym: last_mut().unwrap().insert(name, value)
EnvInsertPanics(env) == Len(env) = 0
EnvInsert(env, name, value) ==
    [env EXCEPT ![Len(env)] = [@ EXCEPT ![name] = value]]

\* a Rust range lo..hi, in iteration order
RustRange(lo, hi) == [k \in 1..(IF hi > lo THEN hi - lo ELSE 0) |-> lo + k - 1]

\* the scope indices (from 0) the loop of find_sym visits, in order: the
\* range len-1..0 (on an empty stack len-1 wraps to usize::MAX in a release
\* build, and the range from there to 0 is empty as well)
FindSymOrder(len) == IF len = 0 THEN <<>> ELSE RustRange(len - 1, 0)

RECURSIVE FindIn(_, _, _)
FindIn(env, order, name) ==
    IF order = <<>> THEN NoObj
    ELSE IF env[Head(order) + 1][name] # NoObj THEN env[Head(order) + 1][name]
    ELSE FindIn(env, Tail(order), name)

\* Environment::find_sym: the object found, or NoObj for SymbolNotFound(name)
FindSym(env, name) ==
    IF Len(env) = 1 THEN env[1][name]
    ELSE FindIn(env, FindSymOrder(Len(env)), name)

----------------------------------------------------------------------------
(* error.rs: Err, ErrType. *)

NoErr == [kind |-> "", name |-> "", wanted |-> 0, got |-> 0, got_type |-> "",
          trace |-> <<>>]

\* Err::new(err_type, self.fn_stack.clone())
ErrNew(I, kind, name, wanted, got, got_type) ==
    [kind |-> kind, name |-> name, wanted |-> wanted, got |-> got,
     got_type |-> got_type, trace |-> I.fn_stack]

\* Result<HeapObject, Err>, with the interpreter the call leaves behind
Ok(I, v) == [I |-> I, ok |-> TRUE, val |-> v, err |-> NoErr]
Fail(I, e) == [I |-> I, ok |-> FALSE, val |-> NoObj, err |-> e]

----------------------------------------------------------------------------
(* interpreter.rs: the evaluator.  locals are the handles held by the Rust *)
(* frames of the calls in progress (they count in Rc::strong_count).       *)

IsProcedure(t) == t.tag \in {"Lambda", "Primitive"}

\* Vec::pop, the popped element dropped
VecPop(s) == IF s = <<>> THEN s ELSE SubSeq(s, 1, Len(s) - 1)

RECURSIVE Eval(_, _, _), EvalCons(_, _, _), EvalLambda(_, _, _, _),
          CallPrimitive(_, _, _, _), PrimDefine(_, _, _)

\* a panic unwinds as a failure that leaves the interpreter panicked
Panic(I) == Fail([I EXCEPT !.panicked = TRUE], NoErr)

\* Environment::pop or cur_env_pop in the middle of a call
PopScope(I) ==
    IF EnvPopPanics(I.environment) THEN [I EXCEPT !.panicked = TRUE]
    ELSE [I EXCEPT !.environment = EnvPop(@)]

\* eval_lambda, the loop over params: the k-th element of exp is taken as
\* the name (unwrap_sym accepts a String only) of the k-th element of params
RECURSIVE BindParams(_, _, _, _)
BindParams(I, exp, params, k) ==
    IF k > Len(params) THEN I
    ELSE IF I.heap[exp[k]].object_type.tag # "String"
            \/ EnvInsertPanics(I.environment)
    THEN [I EXCEPT !.panicked = TRUE]
    ELSE BindParams([I EXCEPT !.environment =
                        EnvInsert(@, I.heap[exp[k]].object_type.name, params[k])],
                    exp, params, k + 1)

\* eval_lambda, the loop over the body: stops at the first failure
RECURSIVE EvalBody(_, _, _)
EvalBody(last, body, locals) ==
    IF body = <<>> \/ ~last.ok THEN last
    ELSE EvalBody(Eval(last.I, Head(body), locals \o <<last.val, Head(body)>>),
                  Tail(body), locals)

\* eval_lambda, the last pop and the value returned
LambdaReturn(I, val) == IF I.panicked THEN Fail(I, NoErr) ELSE Ok(I, val)

\* eval_lambda, once the closure n is allocated
ClosureReturn(n) == LambdaReturn(PopScope(n.I), n.obj)

\* eval_lambda after the loop over the body, whose outcome is last
LambdaLeave(last, lambda, held) ==
    IF ~last.ok THEN Panic(last.I)
    ELSE LET t == last.I.heap[last.val].object_type
             I4 == IF t.tag = "Lambda" \/ (lambda.has_env /\ ~IsProcedure(t))
                   THEN PopScope(last.I)
                   ELSE last.I
         IN IF I4.panicked THEN Fail(I4, NoErr)
            ELSE IF t.tag = "Lambda"
            THEN ClosureReturn(
                    NewObject(I4,
                              TLambda(TRUE,
                                      last.I.environment[Len(last.I.environment)],
                                      t.params, t.body),
                              Append(held, last.val)))
            ELSE LambdaReturn(PopScope(I4), last.val)

\* eval_lambda from the loop over the body on; I has the parameters bound
LambdaBody(I, lambda, held) ==
    IF I.panicked THEN Fail(I, NoErr)
    ELSE IF I.heap[lambda.body].object_type.tag # "Cons" THEN Panic(I)
    ELSE LambdaLeave(EvalBody(Ok(I, NewNil),
                              I.heap[lambda.body].object_type.kids, held),
                     lambda, held)

\* eval_lambda with the call scope pushed before the arity test
EvalLambdaPushFirst(I, f, c, locals) ==
    LET lambda == I.heap[f].object_type
        exp == I.heap[c].object_type.kids
        paramsobj == I.heap[lambda.params].object_type
    IN IF paramsobj.tag # "Cons" THEN Panic(I)
       ELSE IF Len(paramsobj.kids) # Len(exp) - 1
       THEN Fail([I EXCEPT !.environment = EnvPush(@)],
                 ErrNew(I, "WrongArgsNum", "", Len(paramsobj.kids),
                        Len(exp) - 1, ""))
       ELSE LambdaBody(
               BindParams([I EXCEPT !.environment =
                              IF lambda.has_env
                              THEN Append(EnvPush(@), lambda.env)
                              ELSE EnvPush(@)],
                          exp, paramsobj.kids, 1),
               lambda, locals \o exp \o paramsobj.kids)

\* Interpreter::eval_lambda; f is the Lambda object, c the list applied
EvalLambda(I, f, c, locals) ==
    LET lambda == I.heap[f].object_type
        exp == I.heap[c].object_type.kids
        paramsobj == I.heap[lambda.params].object_type
    IN IF paramsobj.tag # "Cons" THEN Panic(I)
       ELSE IF Len(paramsobj.kids) # Len(exp) - 1
       THEN Fail(I, ErrNew(I, "WrongArgsNum", "", Len(paramsobj.kids),
                           Len(exp) - 1, ""))
       ELSE LambdaBody(
               BindParams([I EXCEPT !.environment =
                              IF lambda.has_env
                              THEN Append(EnvPush(@), lambda.env)
                              ELSE EnvPush(@)],
                          exp, paramsobj.kids, 1),
               lambda, locals \o exp \o paramsobj.kids)

\* the handle and the interpreter of an allocation, as a result
OkObject(n) == Ok(n.I, n.obj)

\* Interpreter::refcount
PrimRefcount(I, c, locals) ==
    LET args == I.heap[c].object_type.kids
    IN IF Len(args) # 1
       THEN Fail(I, ErrNew(I, "WrongArgsNum", "", 1, Len(args), ""))
       ELSE OkObject(NewObject(I, TInteger(StrongCount(I, locals, args[1])),
                               locals))

\* Interpreter::define once the value is evaluated, with outcome v
DefineBind(v, sym) ==
    IF ~v.ok THEN v
    ELSE IF EnvInsertPanics(v.I.environment) THEN Panic(v.I)
    ELSE Ok([v.I EXCEPT !.environment = EnvInsert(@, sym, v.val)], NewNil)

\* Interpreter::define
PrimDefine(I, c, locals) ==
    LET args == I.heap[c].object_type.kids
        first == I.heap[args[1]].object_type
    IN IF Len(args) # 2
       THEN Fail(I, ErrNew(I, "WrongArgsNum", "", 2, Len(args), ""))
       ELSE IF first.tag # "Symbol"
       THEN Fail(I, ErrNew(I, "WrongType", "symbolp", 0, 0, TypeString(first)))
       ELSE DefineBind(Eval(I, args[1], locals), first.name)

\* Interpreter::add once add_list has returned res
AddResult(I, res, locals) ==
    IF res.ok THEN OkObject(NewObject(I, res.sum, locals))
    ELSE Fail(I, ErrNew(I, "WrongType", "numberp", 0, 0, res.got))

\* Interpreter::add
PrimAdd(I, c, locals) ==
    AddResult(I, AddList(I.heap, I.heap[c].object_type.kids), locals)

\* Interpreter::sub (the match on the result is that of add)
PrimSub(I, c, locals) ==
    AddResult(I, SubList(I.heap, I.heap[c].object_type.kids), locals)

\* Interpreter::mul (the match on the result is that of add)
PrimMul(I, c, locals) ==
    AddResult(I, MulList(I.heap, I.heap[c].object_type.kids), locals)

\* Object::is_true: every value but the false Bool counts as true
IsTrue(t) == ~(t.tag = "Bool" /\ t.val = 0)

\* Interpreter::eval_body
EvalBodyList(I, forms, locals) == EvalBody(Ok(I, NewNil), forms, locals)

\* how a call of while_loop ends: it returns r, or it never returns (the
\* interpreter is found as it was one iteration before and nothing else
\* decides the loop), or the model stops following it after WhileFuel
\* iterations
Returns(r) == [I |-> r.I, ok |-> r.ok, val |-> r.val, err |-> r.err,
               ends |-> "returns"]
Hangs(I) == [I |-> I, ok |-> FALSE, val |-> NoObj, err |-> NoErr,
             ends |-> "hangs"]
CutOff(I) == [I |-> I, ok |-> FALSE, val |-> NoObj, err |-> NoErr,
              ends |-> "cut off"]

RECURSIVE WhileLoop(_, _, _, _, _, _)

\* while_loop at the end of an iteration that began with the interpreter I0
\* and whose body gave b
WhileNext(b, I0, cond, body, locals, fuel) ==
    IF ~b.ok THEN Returns(b)
    ELSE IF b.I = I0 THEN Hangs(b.I)
    ELSE IF fuel = 0 THEN CutOff(b.I)
    ELSE WhileLoop(b.I, cond, body, locals, b.val, fuel - 1)

\* while_loop once the condition is evaluated, with outcome cnd: a body that
\* is a list is evaluated, by eval_body, only if its first element is a list
\* (front().unwrap() panics on the empty list); any other body by eval
WhileTest(cnd, I0, cond, body, locals, last, fuel) ==
    IF ~cnd.ok THEN Returns(cnd)
    ELSE IF ~IsTrue(cnd.I.heap[cnd.val].object_type)
    THEN Returns(Ok(cnd.I, last))
    ELSE IF cnd.I.heap[body].object_type.tag # "Cons"
    THEN WhileNext(Eval(cnd.I, body, locals), I0, cond, body, locals, fuel)
    ELSE IF cnd.I.heap[body].object_type.kids = <<>>
    THEN Returns(Panic(cnd.I))
    ELSE IF cnd.I.heap[cnd.I.heap[body].object_type.kids[1]].object_type.tag
               = "Cons"
    THEN WhileNext(EvalBodyList(cnd.I, cnd.I.heap[body].object_type.kids,
                                locals),
                   I0, cond, body, locals, fuel)
    ELSE WhileNext(Ok(cnd.I, last), I0, cond, body, locals, fuel)

\* while_loop, the loop
WhileLoop(I, cond, body, locals, last, fuel) ==
    WhileTest(Eval(I, cond, locals), I, cond, body, locals, last, fuel)

\* Interpreter::while_loop on the list c: the condition is args.front() and
\* the body is args.iter().next(), the first element of the list again
PrimWhile(I, c, locals, fuel) ==
    LET args == I.heap[c].object_type.kids
    IN IF Len(args) # 2
       THEN Returns(Fail(I, ErrNew(I, "WrongArgsNum", "", 2, Len(args), "")))
       ELSE WhileLoop(I, args[1], args[1], locals, NewNil, fuel)

\* the native function behind a Primitive, called with the whole list
CallPrimitive(I, name, c, locals) ==
    CASE name = "refcount" -> PrimRefcount(I, c, locals)
      [] name = "define" -> PrimDefine(I, c, locals)
      [] name = "+" -> PrimAdd(I, c, locals)

\* eval_cons, the pop of fn_stack when the call succeeded
PopTrace(res) == IF res.ok THEN [res EXCEPT !.I.fn_stack = VecPop(@)] ELSE res

\* eval_cons once the head is evaluated, with outcome r
ApplyFront(r, c, locals) ==
    IF ~r.ok THEN r
    ELSE LET f == r.I.heap[r.I.heap[c].object_type.kids[1]].object_type
             front == r.I.heap[r.val].object_type
             I1 == IF f.tag = "Symbol" /\ IsProcedure(front)
                   THEN [r.I EXCEPT !.fn_stack = Append(@, f.name)]
                   ELSE r.I
         IN PopTrace(
              CASE front.tag = "Primitive" ->
                     CallPrimitive(I1, front.name, c, Append(locals, r.val))
                [] front.tag = "Lambda" ->
                     EvalLambda(I1, r.val, c, Append(locals, r.val))
                [] OTHER ->
                     Fail(I1, ErrNew(I1, "NotCallable", "", 0, 0,
                                     TypeString(front))))

\* eval_cons handing an empty list back as its own value
EvalConsSelf(I, c, locals) ==
    IF I.heap[c].object_type.kids = <<>> THEN Ok(I, c)
    ELSE ApplyFront(Eval(I, I.heap[c].object_type.kids[1], locals), c, locals)

\* Interpreter::eval_cons; c is the object whose payload is the list
EvalCons(I, c, locals) ==
    IF I.heap[c].object_type.kids = <<>> THEN Ok(I, NewNil)
    ELSE ApplyFront(Eval(I, I.heap[c].object_type.kids[1], locals), c, locals)

\* Interpreter::eval
Eval(I, hobj, locals) ==
    LET t == I.heap[hobj].object_type
    IN CASE t.tag = "Cons" -> EvalCons(I, hobj, Append(locals, hobj))
         [] t.tag = "Symbol" ->
              IF FindSym(I.environment, t.name) # NoObj
              THEN Ok(I, FindSym(I.environment, t.name))
              ELSE Fail(I, ErrNew(I, "SymbolNotFound", t.name, 0, 0, ""))
         [] OTHER -> Ok(I, hobj)

----------------------------------------------------------------------------
(* parse.rs: Scanner.  A line is the sequence of its characters, the       *)
(* newline that ends it included; a word is a sequence of characters.      *)

\* Scanner::new
ScannerNew ==
    [scanning_string |-> FALSE, scanning_char |-> FALSE,
     scanning_num |-> FALSE, scanning_float |-> FALSE,
     scanning_list_depth |-> 0,
     has_incomplete |-> FALSE, incomplete_str |-> <<>>]

\* Scanner::scanning_incomplete
ScanningIncomplete(S) ==
    S.scanning_char \/ S.scanning_list_depth # 0 \/ S.scanning_string

Digits == {"0", "1", "2", "3", "4", "5", "6", "7", "8", "9"}
Signs == {"+", "-"}

\* the words i64::from_str accepts: digits after an optional sign
ValidInt(word) ==
    LET body == IF word # <<>> /\ Head(word) \in Signs THEN Tail(word) ELSE word
    IN body # <<>> /\ \A k \in DOMAIN body : body[k] \in Digits

\* the words f64::from_str accepts among those made of digits, signs and
\* dots: after an optional sign, digits with at most one dot among them
ValidFloat(word) ==
    LET body == IF word # <<>> /\ Head(word) \in Signs THEN Tail(word) ELSE word
    IN /\ \A k \in DOMAIN body : body[k] \in Digits \cup {"."}
       /\ Cardinality({k \in DOMAIN body : body[k] = "."}) <= 1
       /\ \E k \in DOMAIN body : body[k] \in Digits

\* the tokens of the reader, with their text as characters
ScanTok(kind, text) == [kind |-> kind, text |-> text]

\* Scanner::get_token: no token for the empty word; from_str(..).unwrap()
\* panics on a word that is not a number
GetTokenPanics(S, word) ==
    /\ word # <<>>
    /\ S.scanning_num /\ word \notin {<<"+">>, <<"-">>}
    /\ IF S.scanning_float THEN ~ValidFloat(word) ELSE ~ValidInt(word)

GetToken(S, word) ==
    IF word = <<>> THEN <<>>
    ELSE IF S.scanning_num /\ word \notin {<<"+">>, <<"-">>}
    THEN IF S.scanning_float THEN <<ScanTok("Float", word)>>
         ELSE <<ScanTok("Integer", word)>>
    ELSE IF S.scanning_string THEN <<ScanTok("String", word)>>
    ELSE <<ScanTok("Symbol", word)>>

\* scanning_list_depth is a usize; the model keeps it as the integer of the
\* same bits read as signed, so that usize::MAX is -1
UsizeMax == 0 - 1

\* the state of the loop of scan, and how it stopped: "end" at the end of
\* the line, "err" at a return of an error, "panic" at a panic
ScanAt(S, tokens, word, how, err) ==
    [S |-> S, tokens |-> tokens, word |-> word, how |-> how, err |-> err]

\* scan, the loop over actual_line.chars().enumerate() at the index i (from
\* 0); len is line.len(); wraps says whether arithmetic on usize wraps (a
\* release build) or panics on overflow (a debug build)
RECURSIVE ScanLoop(_, _, _, _, _, _, _)
ScanLoop(S, chars, i, tokens, word, len, wraps) ==
    IF i >= Len(chars) THEN ScanAt(S, tokens, word, "end", "")
    ELSE
    LET ch == chars[i + 1]
    IN CASE ch = "\"" ->
              ScanLoop([S EXCEPT !.scanning_string = ~@], chars, i + 1,
                       IF S.scanning_string
                       THEN Append(tokens, ScanTok("String", word)) ELSE tokens,
                       IF S.scanning_string THEN <<>> ELSE word, len, wraps)
         [] ch = "?" ->
              ScanLoop([S EXCEPT !.scanning_char = TRUE], chars, i + 1,
                       tokens, word, len, wraps)
         [] ch \in Digits \cup Signs ->
              ScanLoop([S EXCEPT !.scanning_num = @ \/ word = <<>>], chars,
                       i + 1, tokens, Append(word, ch), len, wraps)
         [] ch = "." ->
              ScanLoop([S EXCEPT !.scanning_float = S.scanning_num], chars,
                       i + 1, tokens, Append(word, ch), len, wraps)
         [] ch = "(" ->
              IF GetTokenPanics(S, word) THEN ScanAt(S, tokens, word, "panic", "")
              ELSE IF S.scanning_list_depth = UsizeMax /\ ~wraps
              THEN ScanAt(S, tokens, word, "panic", "")
              ELSE ScanLoop([S EXCEPT !.scanning_list_depth = @ + 1], chars,
                            i + 1,
                            tokens \o GetToken(S, word) \o <<ScanTok("ParenOpen", <<>>)>>,
                            <<>>, len, wraps)
         [] ch = ")" ->
              IF S.scanning_list_depth = UsizeMax
              THEN ScanAt(S, tokens, word, "err", "UnmatchedParen")
              ELSE IF GetTokenPanics(S, word)
              THEN ScanAt(S, tokens, word, "panic", "")
              ELSE IF S.scanning_list_depth = 0 /\ ~wraps
              THEN ScanAt(S, tokens, word, "panic", "")
              ELSE ScanLoop([S EXCEPT !.scanning_list_depth = @ - 1], chars,
                            i + 1,
                            tokens \o GetToken(S, word) \o <<ScanTok("ParenClose", <<>>)>>,
                            <<>>, len, wraps)
         [] ch = " " ->
              IF GetTokenPanics(S, word) THEN ScanAt(S, tokens, word, "panic", "")
              ELSE ScanLoop([S EXCEPT !.scanning_num = FALSE], chars, i + 1,
                            tokens \o GetToken(S, word), <<>>, len, wraps)
         [] OTHER ->
              IF S.scanning_char
              THEN IF i = len - 2
                   THEN ScanAt(S, tokens, word, "err", "InvalidChar")
                   ELSE ScanLoop([S EXCEPT !.scanning_char = FALSE], chars,
                                 i + 1,
                                 Append(tokens, ScanTok("Character", <<ch>>)),
                                 word, len, wraps)
              ELSE ScanLoop([S EXCEPT !.scanning_num = FALSE], chars, i + 1,
                            tokens, Append(word, ch), len, wraps)

\* scan, actual_line: the input kept so far and the line, less the last
\* character
ActualLine(S, line) ==
    IF S.has_incomplete
    THEN SubSeq(S.incomplete_str \o line, 1,
                Len(S.incomplete_str) + Len(line) - 1)
    ELSE SubSeq(line, 1, Len(line) - 1)

\* what scan gives back: res is "none" (Option::None, the input is
\* incomplete), "ok" with the tokens, "err" with the error, or "panic"
Scanned(S, res, tokens, err) ==
    [S |-> S, res |-> res, tokens |-> tokens, err |-> err]

\* scan after the loop, which stopped as at
ScanEnd(at, actual_line) ==
    IF at.how = "panic" THEN Scanned(at.S, "panic", <<>>, "")
    ELSE IF at.how = "err" THEN Scanned(at.S, "err", <<>>, at.err)
    ELSE IF ScanningIncomplete(at.S)
    THEN Scanned([at.S EXCEPT !.has_incomplete = TRUE,
                              !.incomplete_str =
                                  IF at.S.scanning_string
                                  THEN Append(actual_line, "\n")
                                  ELSE actual_line],
                 "none", <<>>, "")
    ELSE IF GetTokenPanics(at.S, at.word)
    THEN Scanned(at.S, "panic", <<>>, "")
    ELSE Scanned(at.S, "ok", at.tokens \o GetToken(at.S, at.word), "")

\* Scanner::scan
Scan(S, line, wraps) ==
    ScanEnd(ScanLoop(S, ActualLine(S, line), 0, <<>>, <<>>, Len(line), wraps),
            ActualLine(S, line))

----------------------------------------------------------------------------
(* parse.rs: Token, parse_sexp, parse_list, parse. *)

TokOpen == [kind |-> "ParenOpen", name |-> "", n |-> 0]
TokClose == [kind |-> "ParenClose", name |-> "", n |-> 0]
\* a Symbol or String token; n is the capacity of its text
TokSymbol(s, n) == [kind |-> "Symbol", name |-> s, n |-> n]
TokString(n) == [kind |-> "String", name |-> "", n |-> n]
TokInteger(n) == [kind |-> "Integer", name |-> "", n |-> n]
\* a Float token of integral value n
TokFloat(n) == [kind |-> "Float", name |-> "", n |-> n]

\* parse
Parse(I, tok, locals) ==
    CASE tok.kind = "Symbol" /\ tok.name = "#t" -> [I |-> I, obj |-> NewTrue]
      [] tok.kind = "Symbol" /\ tok.name = "#f" -> [I |-> I, obj |-> NewFalse]
      [] tok.kind = "Symbol" /\ tok.name \notin {"#t", "#f"} ->
            NewObject(I, TSymbol(tok.name, tok.n), locals)
      [] tok.kind = "String" -> NewObject(I, TString(tok.n), locals)
      [] tok.kind = "Integer" -> NewObject(I, TInteger(tok.n), locals)
      [] tok.kind = "Float" -> NewObject(I, TFloat(tok.n), locals)

\* parse_list: the loop over tokens.skip(start).enumerate(), at index i;
\* ParseNext pushes the object just made and goes on to the next token
RECURSIVE ParseList(_, _, _, _, _)
ParseNext(one, tokens, start, i, list) ==
    ParseList(one.I, tokens, start, i + 1, Append(list, one.obj))

ParseList(I, tokens, start, i, list) ==
    LET tok == tokens[start + i + 1]
    IN CASE tok.kind = "ParenOpen" ->
              ParseNext(ParseList(I, tokens, i + 1, 0, <<>>),
                        tokens, start, i, list)
         [] tok.kind = "ParenClose" ->
              IF list = <<>> THEN [I |-> I, obj |-> NewNil]
              ELSE NewObject(I, TCons(list), <<>>)
         [] OTHER ->
              ParseNext(Parse(I, tok, list), tokens, start, i, list)

\* Result::Ok(obj) of parse_sexp
Parsed(r) == [I |-> r.I, obj |-> r.obj, ok |-> TRUE]

\* parse_sexp
ParseSexp(I, tokens) ==
    IF tokens[1].kind = "ParenOpen"
    THEN Parsed(ParseList(I, tokens, 1, 0, <<>>))
    ELSE IF Len(tokens) > 1 THEN [I |-> I, obj |-> NoObj, ok |-> FALSE]
    ELSE Parsed(Parse(I, tokens[1], <<>>))

----------------------------------------------------------------------------
(* The interpreter as one record, and the state after Interpreter::new.    *)

Self == [heap |-> heap, live_objects |-> live_objects,
         environment |-> environment, fn_stack |-> fn_stack,
         gc_disabled |-> gc_disabled, bytes_alloc |-> bytes_alloc,
         gc_threshold |-> gc_threshold, assert_fired |-> assert_fired,
         panicked |-> panicked]

Becomes(I) ==
    /\ heap' = I.heap
    /\ live_objects' = I.live_objects
    /\ environment' = I.environment
    /\ fn_stack' = I.fn_stack
    /\ gc_disabled' = I.gc_disabled
    /\ bytes_alloc' = I.bytes_alloc
    /\ gc_threshold' = I.gc_threshold
    /\ assert_fired' = I.assert_fired
    /\ panicked' = I.panicked

InitThreshold == 1000

\* Interpreter::new: the three singletons are built and kept in fields
InitHeap == <<ObjectNew(TCons(<<>>)), ObjectNew(TBool(TRUE)), ObjectNew(TBool(FALSE))>>

\* the singletons registered in the live set like any other object
InitLiveWithSingletons == <<NilId, TrueId, FalseId>>

\* Interpreter::new: live_objects: Vec::new()
InitLive == <<>>

\* Environment::new: one pushed scope
InitEnv == EnvPush(<<>>)

Returned(op, ok, val) == [op |-> op, ok |-> ok, val |-> val, err |-> NoErr]

Init ==
    /\ heap = InitHeap
    /\ live_objects = InitLive
    /\ environment = InitEnv
    /\ fn_stack = <<>>
    /\ gc_disabled = FALSE
    /\ bytes_alloc = 0
    /\ gc_threshold = InitThreshold
    /\ ret = Returned("new", TRUE, 0)
    /\ scanner = ScannerNew
    /\ assert_fired = FALSE
    /\ panicked = FALSE

----------------------------------------------------------------------------
(* The calls a user of the Interpreter makes. *)

\* the handles a caller can pass: every object something still refers to
Handles == Existing(Self, <<>>)

ConsHandles == {o \in Handles : heap[o].object_type.tag = "Cons"}

\* the elements a caller puts into a list or a captured environment
Elements == Handles \ {TrueId, FalseId}

\* the payloads a caller builds from the handles it has: strings, lists,
\* and parameterless lambdas with or without a captured environment
AllocTypes ==
    {TString(c) : c \in StrCaps}
        \cup {TCons(l) : l \in UNION {[1..k -> Elements] : k \in ListLens}}
        \cup {TLambda(FALSE, EmptyScope, NilId, b) : b \in ConsHandles}
        \cup {TLambda(TRUE, [EmptyScope EXCEPT ![n] = v], NilId, b) :
                n \in ApiNames, v \in Elements, b \in ConsHandles}

DoNewObject ==
    /\ UNCHANGED scanner
    /\ ~panicked
    /\ Len(heap) < Len(InitHeap) + MaxObjs
    /\ \E t \in AllocTypes :
          \E r \in {NewObject(Self, t, <<>>)} :
             /\ Becomes(r.I)
             /\ ret' = Returned("new_object", TRUE, r.obj)

DoGc ==
    /\ UNCHANGED scanner
    /\ ~panicked
    /\ \E r \in {Gc(Self, <<>>)} :
          /\ Becomes(r.I)
          /\ ret' = Returned("gc", ~r.cut, r.count)

DoGcDisable ==
    /\ UNCHANGED scanner
    /\ ~panicked
    /\ gc_disabled' = TRUE
    /\ ret' = Returned("unit", TRUE, 0)
    /\ UNCHANGED <<heap, live_objects, environment, fn_stack, bytes_alloc,
                   gc_threshold, assert_fired, panicked>>

DoGcEnable ==
    /\ UNCHANGED scanner
    /\ ~panicked
    /\ gc_disabled' = FALSE
    /\ ret' = Returned("unit", TRUE, 0)
    /\ UNCHANGED <<heap, live_objects, environment, fn_stack, bytes_alloc,
                   gc_threshold, assert_fired, panicked>>

DoPush ==
    /\ UNCHANGED scanner
    /\ ~panicked
    /\ Len(environment) < 1 + MaxDepth
    /\ environment' = EnvPush(environment)
    /\ ret' = Returned("unit", TRUE, 0)
    /\ UNCHANGED <<heap, live_objects, fn_stack, gc_disabled, bytes_alloc,
                   gc_threshold, assert_fired, panicked>>

DoPop ==
    /\ UNCHANGED scanner
    /\ ~panicked
    /\ IF EnvPopPanics(environment)
       THEN /\ panicked' = TRUE
            /\ ret' = Returned("pop", FALSE, 0)
            /\ UNCHANGED environment
       ELSE /\ environment' = EnvPop(environment)
            /\ ret' = Returned("pop", TRUE, 0)
            /\ UNCHANGED panicked
    /\ UNCHANGED <<heap, live_objects, fn_stack, gc_disabled, bytes_alloc,
                   gc_threshold, assert_fired>>

DoInsertSym ==
    /\ UNCHANGED scanner
    /\ ~panicked
    /\ \E n \in ApiNames, v \in Handles :
          IF EnvInsertPanics(environment)
          THEN /\ panicked' = TRUE
               /\ ret' = Returned("unit", FALSE, 0)
               /\ UNCHANGED environment
          ELSE /\ environment' = EnvInsert(environment, n, v)
               /\ ret' = Returned("unit", TRUE, 0)
               /\ UNCHANGED panicked
    /\ UNCHANGED <<heap, live_objects, fn_stack, gc_disabled, bytes_alloc,
                   gc_threshold, assert_fired>>

\* Interpreter::eval on a handle the caller has
DoEval ==
    /\ UNCHANGED scanner
    /\ ~panicked
    /\ \E hobj \in Handles :
          \E r \in {Eval(Self, hobj, <<hobj>>)} :
             /\ Becomes(r.I)
             /\ ret' = [op |-> "eval", arg |-> hobj, ok |-> r.ok, val |-> r.val,
                        err |-> r.err]

Next ==
    \/ DoNewObject
    \/ DoGc
    \/ DoGcDisable
    \/ DoGcEnable
    \/ DoPush
    \/ DoPop
    \/ DoInsertSym
    \/ DoEval

Spec == Init /\ [][Next]_vars

----------------------------------------------------------------------------
(* main.rs: the read-eval-print loop.  The natives are bound in the root   *)
(* scope before the loop starts; a line arrives as its token sequence.     *)

MaxReplObjs == 7    \* objects the lines read so far may have allocated

ReplStrCaps == {1200}   \* lengths of the string literals typed

\* the natives bound at start-up: name -> Primitive
ReplNatives == <<"refcount", "define", "+">>

BindNative(n, name) == [n.I EXCEPT !.environment = EnvInsert(@, name, n.obj)]

RECURSIVE BindNatives(_, _)
BindNatives(I, names) ==
    IF names = <<>> THEN I
    ELSE BindNatives(BindNative(NewObject(I, TPrimitive(Head(names)), <<>>),
                                Head(names)),
                     Tail(names))

NewInterpreter ==
    [heap |-> InitHeap, live_objects |-> InitLive, environment |-> InitEnv,
     fn_stack |-> <<>>, gc_disabled |-> FALSE, bytes_alloc |-> 0,
     gc_threshold |-> InitThreshold, assert_fired |-> FALSE,
     panicked |-> FALSE]

InitRepl ==
    /\ \E I \in {BindNatives(NewInterpreter, ReplNatives)} :
          /\ heap = I.heap
          /\ live_objects = I.live_objects
          /\ environment = I.environment
          /\ fn_stack = I.fn_stack
          /\ gc_disabled = I.gc_disabled
          /\ bytes_alloc = I.bytes_alloc
          /\ gc_threshold = I.gc_threshold
          /\ assert_fired = I.assert_fired
          /\ panicked = I.panicked
    /\ ret = Returned("new", TRUE, 0)
    /\ scanner = ScannerNew

\* the lines typed, as the token sequences Scanner::scan makes of them:
\* atoms and flat lists
ReplLines ==
    { <<TokString(n)>> : n \in ReplStrCaps } \cup
    { <<TokInteger(1)>>,
      <<TokSymbol("x", 1)>>,
      <<TokSymbol("#t", 2)>>,
      <<TokOpen, TokClose>>,
      <<TokOpen, TokSymbol("refcount", 8), TokClose>>,
      <<TokOpen, TokSymbol("refcount", 8), TokSymbol("x", 1), TokClose>>,
      <<TokOpen, TokSymbol("define", 6), TokSymbol("x", 1), TokClose>>,
      <<TokOpen, TokSymbol("define", 6), TokSymbol("x", 1), TokInteger(1),
        TokClose>>,
      <<TokOpen, TokSymbol("x", 1), TokInteger(1), TokClose>>,
      <<TokOpen, TokSymbol("+", 1), TokClose>>,
      <<TokOpen, TokSymbol("+", 1), TokInteger(2), TokFloat(3), TokClose>>,
      <<TokOpen, TokInteger(1), TokClose>> }

\* one iteration of the loop of main on a line that scans completely
DoReplLine ==
    /\ UNCHANGED scanner
    /\ ~panicked
    /\ Len(heap) < Len(InitHeap) + Len(ReplNatives) + MaxReplObjs
    /\ \E line \in ReplLines :
        \E p \in {ParseSexp([Self EXCEPT !.gc_disabled = TRUE], line)} :
             IF p.ok
             THEN \E r \in {Eval([p.I EXCEPT !.gc_disabled = FALSE], p.obj, <<>>)} :
                     /\ Becomes(r.I)
                     /\ ret' = [op |-> "eval", arg |-> p.obj, ok |-> r.ok,
                                val |-> r.val, err |-> r.err]
             ELSE /\ Becomes(p.I)
                  /\ ret' = Returned("parse_sexp", FALSE, 0)

NextRepl == DoReplLine

SpecRepl == InitRepl /\ [][NextRepl]_vars

----------------------------------------------------------------------------
(* The evaluator on expressions a caller builds with new_object: a program *)
(* is the payloads allocated, in order, on a new interpreter (the k-th has *)
(* the id Id(k)) and the names then bound in the root scope.               *)

MaxParams == 2      \* parameters of a lambda, arguments of a call
MaxTrace == 2       \* names on fn_stack when a further eval is started
MaxEvalObjs == 11   \* objects on the heap when a further eval is started

Id(k) == Len(InitHeap) + k

\* n copies of the handle o
Copies(n, o) == [i \in 1..n |-> o]

\* a lambda f of n parameters, with or without a captured environment,
\* applied to m arguments, by its name or as the head itself
ArityProgram(n, m, he, named) ==
    [objs |-> << TSymbol("x", 1),
                 TCons(Copies(n, Id(1))),
                 TLambda(he, IF he THEN [EmptyScope EXCEPT !["y"] = Id(1)]
                                   ELSE EmptyScope,
                         Id(2), NilId),
                 TSymbol("f", 1),
                 TCons(<<IF named THEN Id(4) ELSE Id(3)>> \o Copies(m, Id(1))) >>,
     binds |-> << <<"f", Id(3)>> >>]

\* the forms of a lambda body, by kind: x is not bound, Id(4) is a lambda
BodyKinds == {"none", "atom", "two", "lambda", "unbound", "failfirst"}

BodyForms(kind) ==
    CASE kind = "none" -> <<>>
      [] kind = "atom" -> <<Id(2)>>
      [] kind = "two" -> <<Id(2), Id(3)>>
      [] kind = "lambda" -> <<Id(4)>>
      [] kind = "unbound" -> <<Id(1)>>
      [] kind = "failfirst" -> <<Id(1), Id(2)>>

\* a parameterless lambda f whose body is of the given kind, applied
BodyProgram(kind, he, named) ==
    [objs |-> << TSymbol("x", 1),
                 TInteger(1),
                 TInteger(2),
                 TLambda(FALSE, EmptyScope, NilId, NilId),
                 TCons(BodyForms(kind)),
                 TLambda(he, IF he THEN [EmptyScope EXCEPT !["y"] = Id(2)]
                                   ELSE EmptyScope,
                         NilId, Id(5)),
                 TSymbol("f", 1),
                 TCons(<<IF named THEN Id(7) ELSE Id(6)>>) >>,
     binds |-> << <<"f", Id(6)>> >>]

\* f's body calls g, g's body looks up x, which is not bound
NestedProgram ==
    [objs |-> << TSymbol("x", 1),
                 TCons(<<Id(1)>>),
                 TLambda(FALSE, EmptyScope, NilId, Id(2)),
                 TSymbol("g", 1),
                 TCons(<<Id(4)>>),
                 TCons(<<Id(5)>>),
                 TLambda(FALSE, EmptyScope, NilId, Id(6)),
                 TSymbol("f", 1),
                 TCons(<<Id(8)>>) >>,
     binds |-> << <<"f", Id(7)>>, <<"g", Id(3)>> >>]

\* a Lambda applied as a literal, (l), also as the body of the Lambda that
\* f names; (f) and (f f)
TraceProgram ==
    [objs |-> << TLambda(FALSE, EmptyScope, NilId, NilId),
                 TCons(<<Id(1)>>),
                 TCons(<<Id(2)>>),
                 TLambda(FALSE, EmptyScope, NilId, Id(3)),
                 TSymbol("f", 1),
                 TCons(<<Id(5)>>),
                 TCons(<<Id(5), Id(5)>>) >>,
     binds |-> << <<"f", Id(4)>> >>]

Programs ==
    {ArityProgram(n, m, he, named) :
        n \in 0..MaxParams, m \in 0..MaxParams, he \in BOOLEAN, named \in BOOLEAN}
      \cup {BodyProgram(kind, he, named) :
               kind \in BodyKinds, he \in BOOLEAN, named \in BOOLEAN}
      \cup {NestedProgram, TraceProgram}

\* new_object for each payload in turn
RECURSIVE Allocate(_, _)
Allocate(I, types) ==
    IF types = <<>> THEN I
    ELSE Allocate(NewObject(I, Head(types), <<>>).I, Tail(types))

\* insert_sym for each binding in turn
RECURSIVE BindAll(_, _)
BindAll(I, binds) ==
    IF binds = <<>> THEN I
    ELSE BindAll([I EXCEPT !.environment =
                     EnvInsert(@, Head(binds)[1], Head(binds)[2])],
                 Tail(binds))

InitEval ==
    /\ \E prog \in Programs :
          \E I \in {BindAll(Allocate(NewInterpreter, prog.objs), prog.binds)} :
             /\ heap = I.heap
             /\ live_objects = I.live_objects
             /\ environment = I.environment
             /\ fn_stack = I.fn_stack
             /\ gc_disabled = I.gc_disabled
             /\ bytes_alloc = I.bytes_alloc
             /\ gc_threshold = I.gc_threshold
             /\ assert_fired = I.assert_fired
             /\ panicked = I.panicked
    /\ ret = Returned("new", TRUE, 0)
    /\ scanner = ScannerNew

\* Interpreter::eval, on an interpreter that has not outgrown the bounds
DoEvalNext ==
    /\ Len(fn_stack) < MaxTrace
    /\ Len(heap) < Len(InitHeap) + MaxEvalObjs
    /\ DoEval

NextEval ==
    \/ DoEvalNext
    \/ DoPush
    \/ DoPop
    \/ DoInsertSym

SpecEval == InitEval /\ [][NextEval]_vars

----------------------------------------------------------------------------
(* The arithmetic natives called by a user of the Interpreter on a list of *)
(* numbers: add, sub and mul are public and take the list itself.          *)

MaxOperands == 2    \* numbers in the list
MaxArithObjs == 5   \* objects on the heap when a further call is made

\* the numbers in the list: integers, and floats of integral value
Operands == {TInteger(n) : n \in {1, 2, 3}} \cup {TFloat(2)}

OperandLists == UNION {[1..n -> Operands] : n \in 0..MaxOperands}

\* the numbers allocated in order and then the list of them
ArithProgram(ops) == ops \o <<TCons([i \in DOMAIN ops |-> Id(i)])>>

InitArith ==
    /\ \E ops \in OperandLists :
         \E I \in {Allocate(NewInterpreter, ArithProgram(ops))} :
            /\ heap = I.heap
            /\ live_objects = I.live_objects
            /\ environment = I.environment
            /\ fn_stack = I.fn_stack
            /\ gc_disabled = I.gc_disabled
            /\ bytes_alloc = I.bytes_alloc
            /\ gc_threshold = I.gc_threshold
            /\ assert_fired = I.assert_fired
            /\ panicked = I.panicked
    /\ ret = Returned("new", TRUE, 0)
    /\ scanner = ScannerNew

\* the lists of numbers a call can be given
NumLists ==
    {c \in DOMAIN heap :
        /\ c # NilId /\ heap[c].object_type.tag = "Cons"
        /\ \A i \in DOMAIN heap[c].object_type.kids :
              heap[heap[c].object_type.kids[i]].object_type.tag
                  \in {"Integer", "Float"}}

\* what a native returned for the list c
Answered(op, c, r) ==
    /\ UNCHANGED scanner
    /\ Becomes(r.I)
    /\ ret' = [op |-> op, arg |-> c, ok |-> r.ok, val |-> r.val, err |-> r.err]

DoAdd ==
    /\ Len(heap) < Len(InitHeap) + MaxArithObjs
    /\ \E c \in NumLists : Answered("add", c, PrimAdd(Self, c, <<c>>))

DoSub ==
    /\ Len(heap) < Len(InitHeap) + MaxArithObjs
    /\ \E c \in NumLists : Answered("sub", c, PrimSub(Self, c, <<c>>))

DoMul ==
    /\ Len(heap) < Len(InitHeap) + MaxArithObjs
    /\ \E c \in NumLists : Answered("mul", c, PrimMul(Self, c, <<c>>))

NextArith == DoAdd \/ DoSub \/ DoMul

SpecArith == InitArith /\ [][NextArith]_vars

----------------------------------------------------------------------------
(* while_loop called by a user of the Interpreter on a list it has built:  *)
(* conditions that are a Bool or a Symbol, and bodies of every shape.      *)

WhileFuel == 3      \* iterations of one call that the model follows

\* the first objects of every program: x, y (never bound), 1, a Lambda of no
\* parameters and an empty body, f, (f) and ((f))
WhileObjs ==
    << TSymbol("x", 1), TSymbol("y", 1), TInteger(1),
       TLambda(FALSE, EmptyScope, NilId, NilId), TSymbol("f", 1),
       TCons(<<Id(5)>>), TCons(<<Id(6)>>) >>

WhileConds == {TrueId, FalseId, Id(1), Id(2)}

WhileBodies == {Id(1), Id(2), Id(3), Id(6), Id(7), NilId}

\* the lists handed to while_loop: a condition and a body, and lists of one
\* and of three elements
WhileArgs ==
    {<<cnd, body>> : cnd \in WhileConds, body \in WhileBodies}
      \cup {<<TrueId>>, <<FalseId, Id(3), Id(3)>>}

\* x is bound to the true or to the false Bool
WhileProgram(args, xval) ==
    [objs |-> WhileObjs \o <<TCons(args)>>,
     binds |-> << <<"f", Id(4)>>, <<"x", xval>> >>]

InitWhile ==
    /\ \E args \in WhileArgs, xval \in {TrueId, FalseId} :
         \E prog \in {WhileProgram(args, xval)} :
          \E I \in {BindAll(Allocate(NewInterpreter, prog.objs), prog.binds)} :
            /\ heap = I.heap
            /\ live_objects = I.live_objects
            /\ environment = I.environment
            /\ fn_stack = I.fn_stack
            /\ gc_disabled = I.gc_disabled
            /\ bytes_alloc = I.bytes_alloc
            /\ gc_threshold = I.gc_threshold
            /\ assert_fired = I.assert_fired
            /\ panicked = I.panicked
    /\ ret = Returned("new", TRUE, 0)
    /\ scanner = ScannerNew

\* the last call has come back to the caller
Running == ~panicked /\ (ret.op = "while_loop" => ret.ends = "returns")

DoWhile ==
    /\ UNCHANGED scanner
    /\ Running
    /\ \E c \in ConsHandles :
         \E r \in {PrimWhile(Self, c, <<c>>, WhileFuel)} :
            /\ Becomes(r.I)
            /\ ret' = [op |-> "while_loop", arg |-> c, ok |-> r.ok,
                       val |-> r.val, err |-> r.err, ends |-> r.ends]

WhilePush == Running /\ DoPush

WhilePop == Running /\ DoPop

WhileInsertSym == Running /\ DoInsertSym

NextWhile == DoWhile \/ WhilePush \/ WhilePop \/ WhileInsertSym

SpecWhile == InitWhile /\ [][NextWhile]_vars

----------------------------------------------------------------------------
(* The reader fed with lines, as main does: every line ends with a newline *)
(* and has at least one character before it.                               *)

MaxLine == 3        \* characters of a line before its newline
MaxInput == 4       \* characters of the input scanned by one call
MaxScanDepth == 3   \* scanning_list_depth when a further line is fed

Chars == {"(", ")", "?", "a", "\"", "1"}

Lines == UNION {{l \o <<"\n">> : l \in [1..n -> Chars]} : n \in 1..MaxLine}

InitScan ==
    /\ heap = InitHeap
    /\ live_objects = InitLive
    /\ environment = InitEnv
    /\ fn_stack = <<>>
    /\ gc_disabled = FALSE
    /\ bytes_alloc = 0
    /\ gc_threshold = InitThreshold
    /\ assert_fired = FALSE
    /\ panicked = FALSE
    /\ scanner = ScannerNew
    /\ ret = [op |-> "new", res |-> "", err |-> ""]

DoScan ==
    /\ ~panicked
    /\ scanner.scanning_list_depth <= MaxScanDepth
    /\ \E line \in Lines, wraps \in BOOLEAN :
         /\ Len(ActualLine(scanner, line)) <= MaxInput
         /\ \E r \in {Scan(scanner, line, wraps)} :
            /\ scanner' = r.S
            /\ panicked' = (r.res = "panic")
            /\ ret' = [op |-> "scan", res |-> r.res, err |-> r.err]
    /\ UNCHANGED <<heap, live_objects, environment, fn_stack, gc_disabled,
                   bytes_alloc, gc_threshold, assert_fired>>

NextScan == DoScan

SpecScan == InitScan /\ [][NextScan]_vars

----------------------------------------------------------------------------
(* The collector on arbitrary object graphs: MarkObjs objects whose        *)
(* payloads refer to one another in any way, cycles included (a lambda     *)
(* whose captured environment leads back to the lambda), all of them in    *)
(* the live set with their mark bits cleared by an earlier collection.     *)

MarkIds == (Len(InitHeap) + 1)..(Len(InitHeap) + MarkObjs)
MarkElts == {NilId} \cup MarkIds

MarkTypes ==
    {TString(c) : c \in {6}}
        \cup {TCons(l) : l \in UNION {[1..k -> MarkElts] : k \in ListLens}}
        \cup {TLambda(FALSE, EmptyScope, NilId, b) : b \in MarkElts}
        \cup {TLambda(TRUE, [EmptyScope EXCEPT ![n] = v], NilId, NilId) :
                n \in ApiNames, v \in MarkElts}

\* params and body of a Lambda are lists
WellTyped(h) ==
    \A o \in DOMAIN h :
        h[o].object_type.tag = "Lambda" =>
            /\ h[h[o].object_type.params].object_type.tag = "Cons"
            /\ h[h[o].object_type.body].object_type.tag = "Cons"

RECURSIVE SumSizes(_, _)
SumSizes(h, live) ==
    IF live = <<>> THEN 0
    ELSE SizeOf(h[Head(live)].object_type) + SumSizes(h, Tail(live))

InitMark ==
    /\ \E ts \in [1..MarkObjs -> MarkTypes] :
          heap = InitHeap \o [i \in 1..MarkObjs |->
                                [object_type |-> ts[i], marked |-> FALSE]]
    /\ WellTyped(heap)
    /\ live_objects = SetToSeq(MarkIds)
    /\ \E v \in {NoObj} \cup MarkIds :
          environment = <<[EmptyScope EXCEPT !["x"] = v]>>
    /\ fn_stack = <<>>
    /\ gc_disabled = FALSE
    /\ bytes_alloc = SumSizes(heap, live_objects)
    /\ gc_threshold = InitThreshold
    /\ ret = Returned("new", TRUE, 0)
    /\ scanner = ScannerNew
    /\ assert_fired = FALSE
    /\ panicked = FALSE

NextMark ==
    \/ DoGc
    \/ DoInsertSym

SpecMark == InitMark /\ [][NextMark]_vars

----------------------------------------------------------------------------
(* The sweep on arbitrary live sets: up to SweepObjs strings in the live   *)
(* set, each with its mark bit set (a fresh object) or cleared (a survivor *)
(* of an earlier collection), and any one of them bound in the root scope. *)

SweepIds(n) == (Len(InitHeap) + 1)..(Len(InitHeap) + n)

InitSweep ==
    /\ \E n \in 0..SweepObjs :
          /\ \E ms \in [1..n -> BOOLEAN] :
                heap = InitHeap \o [i \in 1..n |->
                                      [object_type |-> TString(6), marked |-> ms[i]]]
          /\ live_objects = SetToSeq(SweepIds(n))
          /\ \E v \in {NoObj} \cup SweepIds(n) :
                environment = <<[EmptyScope EXCEPT !["x"] = v]>>
    /\ fn_stack = <<>>
    /\ gc_disabled = FALSE
    /\ bytes_alloc = SumSizes(heap, live_objects)
    /\ gc_threshold = InitThreshold
    /\ ret = Returned("new", TRUE, 0)
    /\ scanner = ScannerNew
    /\ assert_fired = FALSE
    /\ panicked = FALSE

NextSweep ==
    \/ DoGc
    \/ DoInsertSym

SpecSweep == InitSweep /\ [][NextSweep]_vars

----------------------------------------------------------------------------
(* mem.rs: the earlier Interpreter, a live set and a stack of scopes.  Its *)
(* objects are the alloc_object handles of an earlier types.rs; the mark   *)
(* bit of a new object is clear, as test_gc expects of its second object.  *)

\* Object::new of the earlier types.rs
MemObject(t) == [object_type |-> t, marked |-> FALSE]

\* Object::mark_environment of the earlier types.rs: marks the values of a scope
RECURSIVE MemMarkEnvironment(_, _)
MemMarkEnvironment(h, values) ==
    IF values = <<>> THEN h
    ELSE MemMarkEnvironment([h EXCEPT ![Head(values)].marked = TRUE], Tail(values))

\* mem.rs Interpreter::mark_all
RECURSIVE MemMarkAll(_, _)
MemMarkAll(h, env) ==
    IF env = <<>> THEN h
    ELSE MemMarkAll(MemMarkEnvironment(h, ScopeValues(Head(env))), Tail(env))

\* the loop of mem.rs Interpreter::gc: i runs over 0..n, n the length of the
\* live set when the loop began; indexing at or past the current length panics
RECURSIVE MemSweep(_, _, _, _, _)
MemSweep(h, live, i, n, count) ==
    IF i >= n THEN [live |-> live, count |-> count, panics |-> FALSE]
    ELSE IF i >= Len(live) THEN [live |-> live, count |-> count, panics |-> TRUE]
    ELSE IF ~h[live[i + 1]].marked
         THEN MemSweep(h, SwapRemove(live, i), i + 1, n, count + 1)
         ELSE MemSweep(h, live, i + 1, n, count)

\* mem.rs Interpreter::gc
MemGc(h, live, env) ==
    LET hm == MemMarkAll(h, env)
        r == MemSweep(hm, live, 0, Len(live), 0)
    IN [h |-> hm, live |-> r.live, count |-> r.count, panics |-> r.panics]

\* mem.rs Interpreter::new: an empty live set and one scope
InitMem ==
    /\ heap = InitHeap
    /\ live_objects = <<>>
    /\ environment = EnvPush(<<>>)
    /\ fn_stack = <<>>
    /\ gc_disabled = FALSE
    /\ bytes_alloc = 0
    /\ gc_threshold = InitThreshold
    /\ ret = Returned("new", TRUE, 0)
    /\ scanner = ScannerNew
    /\ assert_fired = FALSE
    /\ panicked = FALSE

\* the objects the caller of the earlier Interpreter has created
MemHandles == (Len(InitHeap) + 1)..Len(heap)

\* mem.rs Interpreter::new_object on a new String "abcd"
DoMemNewObject ==
    /\ ~panicked
    /\ Len(heap) < Len(InitHeap) + MemObjs
    /\ heap' = Append(heap, MemObject(TString(4)))
    /\ live_objects' = Append(live_objects, Len(heap) + 1)
    /\ ret' = Returned("new_object", TRUE, Len(heap) + 1)
    /\ UNCHANGED <<environment, fn_stack, gc_disabled, bytes_alloc,
                   gc_threshold, assert_fired, panicked, scanner>>

\* mem.rs Interpreter::insert_symbol
DoMemInsertSymbol ==
    /\ ~panicked
    /\ \E n \in MemNames, v \in MemHandles :
          environment' = EnvInsert(environment, n, v)
    /\ ret' = Returned("unit", TRUE, 0)
    /\ UNCHANGED <<heap, live_objects, fn_stack, gc_disabled, bytes_alloc,
                   gc_threshold, assert_fired, panicked, scanner>>

\* mem.rs Interpreter::gc
DoMemGc ==
    /\ ~panicked
    /\ \E r \in {MemGc(heap, live_objects, environment)} :
          /\ heap' = r.h
          /\ live_objects' = r.live
          /\ panicked' = r.panics
          /\ ret' = Returned("gc", ~r.panics, r.count)
    /\ UNCHANGED <<environment, fn_stack, gc_disabled, bytes_alloc,
                   gc_threshold, assert_fired, scanner>>

NextMem ==
    \/ DoMemNewObject
    \/ DoMemInsertSymbol
    \/ DoMemGc

SpecMem == InitMem /\ [][NextMem]_vars

----------------------------------------------------------------------------
(* Properties of the heap and the collector. *)

Live == Range(live_objects)

\* the live objects no scope leads to
Unreachable == Live \ Rooted(Self)

\* C1: every Value that a binding of some scope leads to (through Cons
\* elements and Lambda params, body and captured environment) when a
\* collection starts is still in the live set after it.  No other call
\* removes anything from the live set, so this is stated of every step.
C1_ReachableSurvive ==
    [][\A o \in Rooted(Self) \cap Live : o \in Range(live_objects')]_vars

\* C2: the ownership assertion of the sweep never fires in read-eval-print
\* use: every object a collection finds unmarked has a strong count of 1.
C2_AssertNeverFires == ~assert_fired

\* C3: one Value was allocated in all, the scope just popped was a pushed
\* one, the Value is bound nowhere and collection is enabled: the collection
\* that follows returns 1 and the live set shrinks by exactly 1.
C3_ExactReclamation ==
    [][(/\ ret.op = "pop" /\ ret.ok
        /\ Len(environment) >= 1
        /\ Len(heap) = Len(InitHeap) + 1
        /\ Len(live_objects) = 1
        /\ Unreachable = Live
        /\ ~gc_disabled
        /\ ret'.op = "gc")
       => (/\ ret'.val = 1
           /\ Len(live_objects') = Len(live_objects) - 1)]_vars

\* C4: while collection is disabled gc() returns 0 and keeps the live set;
\* with collection enabled and the N live Values bound nowhere, gc() returns
\* N and removes all N; a gc() right after an enabled gc() returns 0.
C4_DisableEnable ==
    [][(ret'.op = "gc") =>
         /\ gc_disabled => (ret'.val = 0 /\ live_objects' = live_objects)
         /\ (~gc_disabled /\ Unreachable = Live) =>
               (ret'.val = Len(live_objects) /\ live_objects' = <<>>)
         /\ (~gc_disabled /\ Unreachable = Live /\ ret.op = "gc") =>
               ret'.val = 0]_vars

\* C5: after a completed collection cycle every mark bit is false, in the
\* live set and on the nil, true and false singletons.
C5_MarksCleared ==
    (ret.op = "gc" /\ ~gc_disabled) =>
        \A o \in Live \cup Singletons : ~heap[o].marked

\* C6: the singletons are never reclaimed: new_nil, new_true and new_false
\* return the objects built by Interpreter::new, which are never part of the
\* live set, and a collection counts and removes live-set members only.
C6_SingletonsKept ==
    /\ [](/\ {NewNil, NewTrue, NewFalse} \subseteq DOMAIN heap
          /\ heap[NewNil].object_type = TCons(<<>>)
          /\ heap[NewTrue].object_type = TBool(TRUE)
          /\ heap[NewFalse].object_type = TBool(FALSE)
          /\ Cardinality({NewNil, NewTrue, NewFalse}) = 3
          /\ {NewNil, NewTrue, NewFalse} \cap Live = {})
    /\ [][(ret'.op = "gc") =>
            /\ Range(live_objects') \subseteq Live
            /\ ret'.val = Cardinality(Live \ Range(live_objects'))
            /\ {NewNil, NewTrue, NewFalse} \cap (Live \ Range(live_objects')) = {}]_vars

\* a collection has reclaimed an object while a singleton was bound in a scope
C6_Witness ==
    /\ ret.op = "gc" /\ ret.val >= 1
    /\ Range(ScopesValues(environment)) \cap Singletons # {}

NoDuplicates(s) == \A i, j \in DOMAIN s : s[i] = s[j] => i = j

\* a Lambda whose captured environment leads back to the Lambda itself
SelfCapturing(o) ==
    /\ heap[o].object_type.tag = "Lambda"
    /\ heap[o].object_type.has_env
    /\ o \in ReachFrom(heap, Range(ScopeValues(heap[o].object_type.env)), {})

Bound == Range(ScopesValues(environment))

\* C7: a collection started in any state terminates, its mark phase setting
\* the mark bit of each object at most once, also on cyclic graphs; and a
\* live Lambda that is bound in a scope and whose captured environment
\* leads back to itself is in the live set after the collection.
C7_CycleSafe ==
    ~gc_disabled =>
        LET m == MarkAll(heap, environment)
            g == Gc(Self, <<>>)
        IN /\ ~m.cut
           /\ ~g.cut
           /\ NoDuplicates(m.visited)
           /\ \A o \in Live \cap Bound :
                 SelfCapturing(o) => o \in Range(g.I.live_objects)

\* a collection has run and reclaimed something while a self-capturing
\* Lambda, bound in a scope, stayed in the live set
C7_Witness ==
    /\ ret.op = "gc" /\ ret.val >= 1
    /\ \E o \in Live \cap Bound : SelfCapturing(o)

----------------------------------------------------------------------------
(* Properties of the scope stack. *)

\* the scopes that bind name, as indices from 1 (the root scope)
Binders(env, name) == {i \in 1..Len(env) : env[i][name] # NoObj}

Max(S) == CHOOSE a \in S : \A b \in S : b <= a

\* C8: lookup returns the binding of the innermost scope that has the name:
\* the child's value while the child is pushed, the root's after it is popped.
C8_Shadowing ==
    \A n \in Names :
        Binders(environment, n) # {} =>
            FindSym(environment, n)
                = environment[Max(Binders(environment, n))][n]

\* C9: at every depth, lookup fails with SymbolNotFound(name) exactly when
\* no scope, the root scope included, binds the name.
C9_NotFoundIff ==
    \A n \in Names :
        (FindSym(environment, n) = NoObj) <=> (Binders(environment, n) = {})

\* C10: the scope stack always holds at least the root scope.
C10_RootKept == Len(environment) >= 1

----------------------------------------------------------------------------
(* Properties of the evaluator. *)

Kids(o) == heap[o].object_type.kids

\* o is a non-empty list, that is an application
IsCall(o) == heap[o].object_type.tag = "Cons" /\ Kids(o) # <<>>

\* what the head of the application c evaluates to when it is a Lambda (the
\* head is the Lambda or a Symbol that lookup resolves to it), else NoObj
Callee(c) ==
    LET h == Kids(c)[1]
        t == heap[h].object_type
        v == IF t.tag = "Symbol" THEN FindSym(environment, t.name) ELSE h
    IN IF v # NoObj /\ heap[v].object_type.tag = "Lambda" THEN v ELSE NoObj

\* the applications of a Lambda whose params is a list, while the process
\* is running
LambdaCalls ==
    {c \in Handles : /\ ~panicked
                     /\ IsCall(c)
                     /\ Callee(c) # NoObj
                     /\ heap[heap[Callee(c)].object_type.params].object_type.tag
                          = "Cons"}

Declared(c) == Len(Kids(heap[Callee(c)].object_type.params))
Supplied(c) == Len(Kids(c)) - 1

\* C11: applying a Lambda declared with N parameters to M # N arguments
\* fails with WrongArgsNum{wanted: N, got: M}, pushes no scope and adds or
\* changes no binding.
C11_ArityNoBinding ==
    \A c \in LambdaCalls :
        Declared(c) # Supplied(c) =>
            LET r == Eval(Self, c, <<c>>)
            IN /\ ~r.ok /\ ~r.I.panicked
               /\ r.err.kind = "WrongArgsNum"
               /\ r.err.wanted = Declared(c)
               /\ r.err.got = Supplied(c)
               /\ r.I.environment = environment

\* C11: an eval returned WrongArgsNum for a lambda of one or more parameters
C11_Witness ==
    /\ ret.op = "eval" /\ ~ret.ok
    /\ ret.err.kind = "WrongArgsNum"
    /\ ret.err.wanted # ret.err.got
    /\ ret.err.wanted > 0
    /\ \E c \in LambdaCalls : Declared(c) = ret.err.wanted
                               /\ Supplied(c) = ret.err.got

\* C12: every Lambda application that returns, with a value or an error,
\* leaves the scope stack as deep as it found it and the caller's scopes
\* untouched, whatever the body returns and with or without a captured
\* environment.
C12_ScopeBalance ==
    \A c \in LambdaCalls :
        LET r == Eval(Self, c, <<c>>)
        IN ~r.I.panicked => r.I.environment = environment

\* the forms of the body of the Lambda that c applies
Forms(c) == Kids(heap[Callee(c)].object_type.body)

\* the applications of a parameterless Lambda to no arguments whose body is
\* a list of forms that are not applications themselves
SimpleCalls ==
    {c \in LambdaCalls :
        /\ Declared(c) = 0 /\ Supplied(c) = 0
        /\ heap[heap[Callee(c)].object_type.body].object_type.tag = "Cons"
        /\ \A i \in DOMAIN Forms(c) :
              heap[Forms(c)[i]].object_type.tag # "Cons"}

\* the interpreter as the body of the Lambda that c applies finds it
InBody(c) ==
    LET lambda == heap[Callee(c)].object_type
    IN [Self EXCEPT !.environment = IF lambda.has_env
                                    THEN Append(EnvPush(@), lambda.env)
                                    ELSE EnvPush(@)]

\* what the i-th form of the body evaluates to
FormResult(c, i) == Eval(InBody(c), Forms(c)[i], <<>>)

Failing(c) == {i \in DOMAIN Forms(c) : ~FormResult(c, i).ok}

Min(S) == CHOOSE a \in S : \A b \in S : a <= b

\* C13: the body forms are evaluated in order; if all succeed the result is
\* the value of the last form (a Lambda is returned as a closure, a new
\* object), and if one fails the application returns the error of the first
\* failing form as an Err value and the interpreter does not abort.
C13_BodySequencing ==
    \A c \in SimpleCalls :
        LET r == Eval(Self, c, <<c>>)
            n == Len(Forms(c))
        IN /\ ~r.I.panicked
           /\ IF Failing(c) # {}
              THEN /\ ~r.ok
                   /\ r.err.kind = FormResult(c, Min(Failing(c))).err.kind
                   /\ r.err.name = FormResult(c, Min(Failing(c))).err.name
              ELSE /\ r.ok
                   /\ n = 0 => r.val = NilId
                   /\ (n > 0 /\ heap[FormResult(c, n).val].object_type.tag
                                   # "Lambda")
                         => r.val = FormResult(c, n).val

\* the parameters the Lambda that c applies declares
Params(c) == Kids(heap[Callee(c)].object_type.params)

\* the applications of a Lambda of one or more parameters, all of them
\* Symbols, to as many arguments
FullCalls ==
    {c \in LambdaCalls :
        /\ Declared(c) >= 1 /\ Declared(c) = Supplied(c)
        /\ \A i \in DOMAIN Params(c) :
              heap[Params(c)[i]].object_type.tag = "Symbol"}

\* C14: when a Lambda with parameters p1..pN is applied to arguments a1..aN,
\* the application does not abort and the scope the body is evaluated in
\* binds every pi to the i-th element after the head of the call.
C14_ParamBinding ==
    \A c \in FullCalls :
        LET bound == BindParams(InBody(c), Kids(c), Params(c), 1)
            top == bound.environment[Len(bound.environment)]
        IN /\ ~Eval(Self, c, <<c>>).I.panicked
           /\ ~bound.panicked
           /\ \A i \in DOMAIN Params(c) :
                 (\A j \in DOMAIN Params(c) :
                     j > i => heap[Params(c)[j]].object_type.name
                                # heap[Params(c)[i]].object_type.name)
                    => top[heap[Params(c)[i]].object_type.name] = Kids(c)[i + 1]

\* the applications whose head is a Symbol that lookup resolves to the
\* Primitive of the given name, while the process is running
PrimCalls(name) ==
    {c \in Handles :
        /\ ~panicked
        /\ IsCall(c)
        /\ heap[Kids(c)[1]].object_type.tag = "Symbol"
        /\ LET v == FindSym(environment, heap[Kids(c)[1]].object_type.name)
           IN /\ v # NoObj
              /\ heap[v].object_type.tag = "Primitive"
              /\ heap[v].object_type.name = name}

\* C15: a Primitive is invoked with exactly the elements after the head of
\* the list: refcount, which takes one argument, succeeds on a list of a head
\* and one more element, and on any other list reports the number of elements
\* after the head as the number of arguments it got.
C15_PrimitiveArgs ==
    \A c \in PrimCalls("refcount") :
        LET r == Eval(Self, c, <<c>>)
        IN IF Len(Kids(c)) - 1 = 1
           THEN r.ok
           ELSE /\ ~r.ok
                /\ r.err.kind = "WrongArgsNum"
                /\ r.err.wanted = 1
                /\ r.err.got = Len(Kids(c)) - 1

\* the empty lists, while the process is running
EmptyLists ==
    {c \in Handles : ~panicked /\ heap[c].object_type.tag = "Cons"
                               /\ Kids(c) = <<>>}

\* C16: evaluating an empty Cons returns Ok with the nil singleton and leaves
\* the Environment, the live set and the call-trace unchanged.
C16_EmptyApplication ==
    \A c \in EmptyLists :
        LET r == Eval(Self, c, <<c>>)
        IN /\ r.ok /\ r.val = NilId
           /\ r.I.environment = environment
           /\ r.I.live_objects = live_objects
           /\ r.I.fn_stack = fn_stack

\* C16: eval was called with an empty list that is not the nil singleton,
\* with a name on the call-trace and a binding in the root scope
C16_Witness ==
    /\ ret.op = "eval" /\ ret.arg \in EmptyLists \ {NilId}
    /\ ret.ok
    /\ fn_stack # <<>>
    /\ Len(environment) >= 1 /\ environment[1]["f"] # NoObj

\* the Lambda that the root scope binds to the Symbol h, NoObj if none
RootLambda(h) ==
    LET t == heap[h].object_type
        v == IF t.tag = "Symbol" /\ environment # <<>>
             THEN environment[1][t.name] ELSE NoObj
    IN IF v # NoObj /\ heap[v].object_type.tag = "Lambda" THEN v ELSE NoObj

\* the one form of the body of the parameterless Lambda l, NoObj if the body
\* is not a list of one form
OnlyForm(l) ==
    LET t == heap[l].object_type
    IN IF /\ heap[t.params].object_type.tag = "Cons" /\ Kids(t.params) = <<>>
          /\ heap[t.body].object_type.tag = "Cons" /\ Len(Kids(t.body)) = 1
       THEN Kids(t.body)[1] ELSE NoObj

\* c is (f), f names a Lambda whose body is (g), g names a Lambda whose body
\* is s
NestedCall(c, s) ==
    /\ IsCall(c) /\ Len(Kids(c)) = 1 /\ RootLambda(Kids(c)[1]) # NoObj
    /\ LET inner == OnlyForm(RootLambda(Kids(c)[1]))
       IN /\ inner # NoObj
          /\ IsCall(inner) /\ Len(Kids(inner)) = 1
          /\ RootLambda(Kids(inner)[1]) # NoObj
          /\ OnlyForm(RootLambda(Kids(inner)[1])) = s

NameOf(h) == heap[h].object_type.name

\* C17: when a named Lambda g is called from inside a named Lambda f and g's
\* body is a Symbol that no scope binds, the top-level caller gets the error
\* SymbolNotFound with the trace g, f (the innermost call first).
C17_NestedTrace ==
    \A c, s \in Handles :
        (/\ ~panicked /\ fn_stack = <<>>
         /\ NestedCall(c, s)
         /\ heap[s].object_type.tag = "Symbol"
         /\ \A d \in DOMAIN environment : environment[d][NameOf(s)] = NoObj)
        => LET r == Eval(Self, c, <<c>>)
               inner == OnlyForm(RootLambda(Kids(c)[1]))
           IN /\ ~r.I.panicked /\ ~r.ok
              /\ r.err.kind = "SymbolNotFound" /\ r.err.name = NameOf(s)
              /\ r.err.trace = <<NameOf(Kids(inner)[1]), NameOf(Kids(c)[1])>>

\* the Symbols that no scope binds, while the process is running
UnboundSymbols ==
    {h \in Handles :
        /\ ~panicked /\ heap[h].object_type.tag = "Symbol"
        /\ \A d \in DOMAIN environment : environment[d][NameOf(h)] = NoObj}

\* the applications, by name, of a Lambda to the wrong number of arguments
NamedMismatches ==
    {c \in LambdaCalls : /\ heap[Kids(c)[1]].object_type.tag = "Symbol"
                         /\ Declared(c) # Supplied(c)}

\* C18: between two top-level evaluations no procedure is executing, so the
\* error of a top-level evaluation carries only the names of the calls that
\* this evaluation has entered: none for an unbound Symbol, the one name of
\* the call for a named application that fails its arity test.
C18_NoStaleNames ==
    /\ \A h \in UnboundSymbols : Eval(Self, h, <<h>>).err.trace = <<>>
    /\ \A c \in NamedMismatches :
          Eval(Self, c, <<c>>).err.trace = <<NameOf(Kids(c)[1])>>

\* the scopes below the innermost one
Outer(env) == SubSeq(env, 1, Len(env) - 1)

\* C19: (define sym expr) evaluates expr and binds its result to sym in the
\* innermost scope, the outer scopes unchanged; if the first argument is not
\* a Symbol it fails and no binding is added or changed.
C19_Define ==
    \A c \in PrimCalls("define") :
        Len(Kids(c)) = 3 =>
            LET sym == heap[Kids(c)[2]].object_type
                v == Eval(Self, Kids(c)[3], <<c>>)
                r == Eval(Self, c, <<c>>)
            IN IF sym.tag # "Symbol"
               THEN ~r.ok /\ r.I.environment = environment
               ELSE v.ok =>
                      /\ r.ok
                      /\ r.I.environment[Len(environment)][sym.name] = v.val
                      /\ Outer(r.I.environment) = Outer(environment)

\* the operands of the application c, each evaluated on its own
Operand(c, i) == Eval(Self, Kids(c)[i + 1], <<c>>)

Numbers == {"Integer", "Float"}

ValueType(r) == heap[r.val].object_type

\* the left fold of the sum over the operands i..n of c, from acc on
RECURSIVE FoldSum(_, _, _)
FoldSum(c, i, acc) ==
    IF i > Len(Kids(c)) - 1 THEN acc
    ELSE FoldSum(c, i + 1,
                 [tag |-> IF acc.tag = "Float"
                             \/ ValueType(Operand(c, i)).tag = "Float"
                          THEN "Float" ELSE "Integer",
                  val |-> acc.val + ValueType(Operand(c, i)).val])

\* C20: (+) yields Integer 0; (+ a1 .. an) yields the left-fold sum of the
\* evaluated operands, an Integer if all of them are integers and a Float as
\* soon as one is a float; an operand that evaluates to a non-number fails
\* with WrongType{wanted: "numberp", got: its type}.
C20_Addition ==
    \A c \in PrimCalls("+") :
        LET n == Len(Kids(c)) - 1
            r == Eval(Self, c, <<c>>)
            bad == {i \in 1..n : ValueType(Operand(c, i)).tag \notin Numbers}
            sum == FoldSum(c, 1, [tag |-> "Integer", val |-> 0])
        IN (\A i \in 1..n : Operand(c, i).ok) =>
              IF bad = {}
              THEN /\ r.ok
                   /\ r.I.heap[r.val].object_type.tag = sum.tag
                   /\ r.I.heap[r.val].object_type.val = sum.val
              ELSE /\ ~r.ok
                   /\ r.err.kind = "WrongType" /\ r.err.name = "numberp"
                   /\ r.err.got_type = TypeString(ValueType(Operand(c, Min(bad))))

----------------------------------------------------------------------------
(* Properties of the arithmetic natives. *)

\* the non-empty lists of integers
IntLists ==
    {c \in NumLists :
        /\ Kids(c) # <<>>
        /\ \A i \in DOMAIN Kids(c) : heap[Kids(c)[i]].object_type.tag = "Integer"}

IntAt(c, i) == heap[Kids(c)[i]].object_type.val

\* a1 * .. * an
RECURSIVE Product(_, _)
Product(c, i) == IF i > Len(Kids(c)) THEN 1 ELSE IntAt(c, i) * Product(c, i + 1)

\* a1 - a2 - .. - ai
RECURSIVE Difference(_, _)
Difference(c, i) ==
    IF i = 1 THEN IntAt(c, 1) ELSE Difference(c, i - 1) - IntAt(c, i)

\* C21: mul over a non-empty list of integers yields their product (the fold
\* starts at 1), which is not zero when no operand is; sub over a1 .. an,
\* n >= 2, yields a1 - a2 - .. - an (the first operand is the seed).
C21_FoldStart ==
    \A c \in IntLists :
        /\ LET m == MulList(heap, Kids(c))
           IN /\ m.ok /\ m.sum.tag = "Integer" /\ m.sum.val = Product(c, 1)
              /\ (\A i \in DOMAIN Kids(c) : IntAt(c, i) # 0) => m.sum.val # 0
        /\ Len(Kids(c)) >= 2 =>
              LET d == SubList(heap, Kids(c))
              IN d.ok /\ d.sum.tag = "Integer"
                      /\ d.sum.val = Difference(c, Len(Kids(c)))

----------------------------------------------------------------------------
(* Properties of while_loop. *)

\* the calls of while_loop with a condition and a body
WhileCalls == {c \in ConsHandles : Running /\ Len(Kids(c)) = 2}

\* the condition of the call c, evaluated
CondOf(c) == Eval(Self, Kids(c)[1], <<c>>)

\* the body of the call c, evaluated once after the condition: a list whose
\* first element is a list is a sequence of forms, anything else one form
BodyOnce(c) ==
    LET body == Kids(c)[2]
        t == heap[body].object_type
    IN IF t.tag = "Cons" /\ t.kids # <<>>
          /\ heap[t.kids[1]].object_type.tag = "Cons"
       THEN EvalBodyList(CondOf(c).I, t.kids, <<c>>)
       ELSE Eval(CondOf(c).I, body, <<c>>)

\* no call of while_loop is cut off by the model
WhileFollowed == ret.op = "while_loop" => ret.ends # "cut off"

\* C22: while evaluates its condition before each iteration and its body,
\* the second argument, once per true condition: if the condition is false
\* at once the result is nil, and if it is true and the body then fails, the
\* call returns the body's error.
C22_WhileLoop ==
    \A c \in WhileCalls :
        LET r == PrimWhile(Self, c, <<c>>, WhileFuel)
        IN /\ (CondOf(c).ok /\ CondOf(c).val = FalseId)
                 => r.ends = "returns" /\ r.ok /\ r.val = NilId
           /\ (CondOf(c).ok /\ CondOf(c).val = TrueId /\ ~BodyOnce(c).ok)
                 => /\ r.ends = "returns" /\ ~r.ok
                    /\ r.I.panicked = BodyOnce(c).I.panicked
                    /\ r.err.kind = BodyOnce(c).err.kind
                    /\ r.err.name = BodyOnce(c).err.name

----------------------------------------------------------------------------
(* Properties of the reader. *)

\* the scanner is between two inputs: nothing kept, nothing open
ScannerIdle ==
    /\ ~panicked
    /\ ~scanner.has_incomplete
    /\ ~ScanningIncomplete(scanner)

\* C23: a closing parenthesis met while the list depth is 0 makes scan
\* return the error UnmatchedParen, and the list depth is never below 0.
C23_UnmatchedParen ==
    /\ scanner.scanning_list_depth >= 0
    /\ \A line \in Lines, wraps \in BOOLEAN :
          (ScannerIdle /\ line[1] = ")")
             => LET r == Scan(scanner, line, wraps)
                IN r.res = "err" /\ r.err = "UnmatchedParen"

\* a line without its newline
Body(line) == SubSeq(line, 1, Len(line) - 1)

\* the lists open after the first k of chars
RECURSIVE Opens(_, _)
Opens(chars, k) ==
    IF k = 0 THEN 0
    ELSE Opens(chars, k - 1) + (IF chars[k] = "(" THEN 1
                                ELSE IF chars[k] = ")" THEN 0 - 1 ELSE 0)

\* chars has no string, no character literal and no excess ')'
Plain(chars) ==
    /\ \A k \in DOMAIN chars : chars[k] \notin {"\"", "?"}
    /\ \A k \in DOMAIN chars : Opens(chars, k) >= 0

Balanced(chars) == Plain(chars) /\ Opens(chars, Len(chars)) = 0

\* C24: a line that ends with lists open makes scan return incomplete
\* (None); a later line that closes them makes scan return the tokens of
\* the whole input; and a balanced line fed after that is scanned on its
\* own, as a new scanner scans it.
C24_LineAccumulation ==
    \A wraps \in BOOLEAN : \A l1 \in Lines :
        (/\ ScannerIdle
         /\ Plain(Body(l1)) /\ Opens(Body(l1), Len(Body(l1))) > 0)
        => /\ Scan(scanner, l1, wraps).res = "none"
           /\ \A l2 \in Lines :
                Balanced(Body(l1) \o Body(l2)) =>
                   LET r2 == Scan(Scan(scanner, l1, wraps).S, l2, wraps)
                   IN /\ r2.res = "ok"
                      /\ r2.tokens = Scan(ScannerNew, Body(l1) \o l2, wraps).tokens
                      /\ \A l3 \in Lines :
                            Balanced(Body(l3)) =>
                               /\ Scan(r2.S, l3, wraps).res = "ok"
                               /\ Scan(r2.S, l3, wraps).tokens
                                     = Scan(ScannerNew, l3, wraps).tokens

\* the lines made of a '?' and n letters
CharLines(n) == {l \in Lines : /\ Len(Body(l)) = n + 1
                               /\ l[1] = "?"
                               /\ \A k \in 2..(n + 1) : l[k] = "a"}

\* C25: a '?' followed by more than one non-terminating character makes
\* scan return the error InvalidChar, and a '?' followed by exactly one
\* character gives one Character token.
C25_CharLiterals ==
    \A wraps \in BOOLEAN :
        ScannerIdle =>
           /\ \A n \in 2..(MaxLine - 1) : \A l \in CharLines(n) :
                 LET r == Scan(scanner, l, wraps)
                 IN r.res = "err" /\ r.err = "InvalidChar"
           /\ \A l \in CharLines(1) :
                 LET r == Scan(scanner, l, wraps)
                 IN r.res = "ok" /\ r.tokens = <<ScanTok("Character", <<l[2]>>)>>

----------------------------------------------------------------------------
(* Properties of the accounting. *)

\* C26: after an allocation that triggers a collection the threshold is
\* half of the accounted size that is left after the sweep; with collection
\* disabled, an allocation over the threshold adds the size of the new
\* payload to the accounted size and the new object to the live set, and
\* nothing else.
C26_Threshold ==
    \A t \in AllocTypes :
        (~panicked /\ bytes_alloc + SizeOf(t) > gc_threshold) =>
            LET n == NewObject(Self, t, <<>>)
            IN IF gc_disabled
               THEN /\ n.I.bytes_alloc = bytes_alloc + SizeOf(t)
                    /\ n.I.live_objects = Append(live_objects, n.obj)
               ELSE n.I.gc_threshold = n.I.bytes_alloc \div 2

----------------------------------------------------------------------------
(* Properties of the call-trace. *)

\* C27: a successful evaluation of a non-empty list leaves the call-trace
\* as it found it; when the head is not a Symbol nothing was pushed, and no
\* entry of an enclosing caller is popped.
C27_TraceBalance ==
    \A c \in Handles :
        (~panicked /\ IsCall(c)) =>
            LET r == Eval(Self, c, <<c>>)
            IN r.ok => r.I.fn_stack = fn_stack

\* the objects allocated by new_object so far
Allocated == (Len(InitHeap) + 1)..Len(heap)

\* C28: bytes_alloc is the sum of size_of over the objects in the live set
\* and never underflows; the live set holds allocated objects only, each
\* once, and the object that new_object has just returned is in it.
C28_Accounting ==
    /\ bytes_alloc = SumSizes(heap, live_objects)
    /\ bytes_alloc >= 0
    /\ \A i, j \in DOMAIN live_objects :
          live_objects[i] = live_objects[j] => i = j
    /\ \A i \in DOMAIN live_objects : live_objects[i] \in Allocated
    /\ ret.op = "new_object" =>
          \E i \in DOMAIN live_objects : live_objects[i] = ret.val

\* C28: a collection has reclaimed objects and kept others
C28_Witness ==
    /\ ret.op = "gc" /\ ret.val > 0
    /\ live_objects # <<>>
    /\ bytes_alloc > 0

----------------------------------------------------------------------------
(* Properties of the sweep. *)

\* the positions of the live set whose object the mark phase m left unmarked
UnmarkedAt(m) == {i \in DOMAIN live_objects : ~m.h[live_objects[i]].marked}

\* the positions of live set l that hold object o
Places(l, o) == {i \in DOMAIN l : l[i] = o}

\* C29: whatever the live set and wherever its marked and unmarked objects
\* stand, a collection removes exactly the objects the mark phase left
\* unmarked, keeps every marked object exactly once, and returns the number
\* of objects removed, which is the decrease of the live set's length
C29_SweepExact ==
    LET m == MarkAll(heap, environment)
        r == Gc(Self, <<>>)
        after == r.I.live_objects
    IN (~gc_disabled /\ ~m.cut) =>
          /\ \A i \in DOMAIN live_objects :
                LET o == live_objects[i]
                IN IF m.h[o].marked
                   THEN Cardinality(Places(after, o)) =
                            Cardinality(Places(live_objects, o))
                   ELSE Places(after, o) = {}
          /\ \A i \in DOMAIN after : Places(live_objects, after[i]) # {}
          /\ r.count = Cardinality(UnmarkedAt(m))
          /\ r.count = Len(live_objects) - Len(after)

\* C29: a collection has removed two or more objects and kept two or more
C29_Witness ==
    /\ ret.op = "gc"
    /\ ret.val >= 2
    /\ Len(live_objects) >= 2
    /\ \A i \in DOMAIN live_objects : ~heap[live_objects[i]].marked

----------------------------------------------------------------------------
(* Properties of the earlier heap of mem.rs. *)

\* the objects bound in some scope
MemBound == Range(ScopesValues(environment))

\* the positions of the live set whose object no scope binds
UnboundAt == {i \in DOMAIN live_objects : live_objects[i] \notin MemBound}

\* C30: whatever the number and the order of the bound and unbound objects
\* of the live set, gc() of mem.rs indexes inside the live set, returns the
\* number of live objects no scope binds, and keeps every bound object
C30_MemGc ==
    LET r == MemGc(heap, live_objects, environment)
    IN ~panicked =>
          /\ ~r.panics
          /\ r.count = Cardinality(UnboundAt)
          /\ \A i \in DOMAIN live_objects :
                live_objects[i] \in MemBound => Places(r.live, live_objects[i]) # {}


============================================================================
